---- MODULE Spec2Model ----
(***************************************************************************)
(* Persistence layer of the chocolate price map: the flat-file backend     *)
(* (data_manager.py, class DataManager), the relational backend and the    *)
(* facade that selects one of them (database_manager.py, class             *)
(* DatabaseManager).                                                       *)
(*                                                                         *)
(* Units.  Time is counted in clock ticks, TicksPerSec ticks to a second;  *)
(* a formatted timestamp ("%Y-%m-%d %H:%M:%S", TO_CHAR(... 'HH24:MI:SS'))  *)
(* keeps whole seconds only.  A price is counted in thousandths of a       *)
(* pound and a coordinate in tenths of 1e-8 degree, so that the rounding   *)
(* of the DECIMAL(10, 2) and DECIMAL(10, 8) columns is visible.            *)
(***************************************************************************)
EXTENDS Integers, Sequences, FiniteSets

VARIABLES
    database_url,   \* the DATABASE_URL environment value ("" when not set)
    use_database,   \* DatabaseManager.use_database
    running,        \* FALSE after the process was killed inside a write
    file,           \* content of map_pins.json
    tmp,            \* content of map_pins.json.tmp
    table,          \* rows of chocolate_pins
    next_id,        \* next value of the SERIAL sequence of chocolate_pins.id
    clock,          \* wall clock, in ticks
    last,           \* history: the last call, its inputs and what it returned
    prev,           \* history: the files and the table as the last call found them
    writers,        \* two uncoordinated writers on the file backend, step by step
    session         \* st.session_state of the presentation layer, and its last event

vars == <<database_url, use_database, running, file, tmp, table, next_id, clock,
          last, prev, writers, session>>

----------------------------------------------------------------------------
(* Bounds of the model *)

MaxClock == 3       \* adds stop when the clock reaches this tick
TicksPerSec == 2    \* clock ticks in one second

(* Scales of the fixed-precision columns, in model units *)

PriceQuantum == 10  \* DECIMAL(10, 2): one hundredth of a pound
CoordQuantum == 10  \* DECIMAL(10, 8) / DECIMAL(11, 8): 1e-8 degree

----------------------------------------------------------------------------
(* Values *)

Abs(x) == IF x < 0 THEN -x ELSE x

\* numeric(p, s) rounds to s decimals, ties away from zero
RoundTo(x, q) ==
    LET m == ((Abs(x) + (q \div 2)) \div q) * q
    IN  IF x < 0 THEN -m ELSE m

\* strftime("%Y-%m-%d %H:%M:%S") and TO_CHAR(.., 'YYYY-MM-DD HH24:MI:SS'):
\* the instant cut to whole seconds
FormatTimestamp(t) == t \div TicksPerSec

\* the first tick of the second a formatted timestamp names
ParseTimestamp(s) == s * TicksPerSec

\* argument tuples of add_pin that the model submits
ArgTuples ==
    { [price |-> 1500, location |-> "Tesco Oxford St", brand |-> "Cadbury Orange Twirl",
       fact |-> "", lat |-> 20, lon |-> -10, is_multi_pack |-> FALSE],
      [price |-> 1505, location |-> "Corner Shop", brand |-> "Off-brand orange twirl",
       fact |-> "own brand", lat |-> 25, lon |-> -14, is_multi_pack |-> TRUE] }

NoArgs ==
    [price |-> 0, location |-> "", brand |-> "", fact |-> "", lat |-> 0, lon |-> 0,
     is_multi_pack |-> FALSE]

\* identifiers handed to delete_pin: positions, primary keys, and values out of range
DeleteIds == -1 .. MaxClock

----------------------------------------------------------------------------
(* Files *)

NoFile == [kind |-> "missing", pins |-> <<>>]
CorruptFile == [kind |-> "corrupt", pins |-> <<>>]      \* not parseable as JSON
NotListFile == [kind |-> "notlist", pins |-> <<>>]      \* valid JSON, not an array
PartialFile == [kind |-> "partial", pins |-> <<>>]      \* a write cut short
ListFile(pins) == [kind |-> "list", pins |-> pins]

\* how a write can end: the step that fails or at which the process is killed,
\* and whether the removal of the temporary file works
SaveOutcomes ==
    { [step |-> "ok", cleanup |-> TRUE] }
    \cup { [step |-> s, cleanup |-> TRUE] : s \in {"open_fail", "dump_fail", "rename_fail"} }
    \cup { [step |-> "rename_fail", cleanup |-> FALSE] }
    \cup { [step |-> s, cleanup |-> TRUE] : s \in {"kill_dump", "kill_rename"} }

ReturningOutcomes == { o \in SaveOutcomes : o.step \notin {"kill_dump", "kill_rename"} }

OkOutcome == [step |-> "ok", cleanup |-> TRUE]

----------------------------------------------------------------------------
(* What a call gives back *)

NoInfo ==
    [storage_type |-> "", file_exists |-> FALSE, pin_count |-> 0,
     connection_status |-> "", error |-> FALSE]

Ret(kind, b, n, pins, s, info) ==
    [kind |-> kind, b |-> b, n |-> n, pins |-> pins, s |-> s, info |-> info]

RetBool(b) == Ret("bool", b, 0, <<>>, "", NoInfo)
RetInt(n) == Ret("int", FALSE, n, <<>>, "", NoInfo)
RetList(pins) == Ret("list", FALSE, 0, pins, "", NoInfo)
RetStr(s) == Ret("str", FALSE, 0, <<>>, s, NoInfo)
RetInfo(info) == Ret("info", FALSE, 0, <<>>, "", info)
RetRaise == Ret("raise", FALSE, 0, <<>>, "", NoInfo)    \* an exception reached the caller
RetNone == Ret("none", FALSE, 0, <<>>, "", NoInfo)      \* the call never returned

----------------------------------------------------------------------------
(* Flat-file backend: DataManager *)

\* the except branch of _save_pins: the temporary file, if there, is removed
\* (unless the removal fails too)
CleanUp(t, o) == IF t.kind # "missing" /\ o.cleanup THEN NoFile ELSE t

\* _save_pins as a plausible bug would have it: the data file is written in place
SavePinsInPlace(f, t, pins, o) ==
    CASE o.step = "ok" -> [file |-> ListFile(pins), tmp |-> t, status |-> "true"]
      [] o.step = "open_fail" -> [file |-> f, tmp |-> t, status |-> "false"]
      [] o.step = "dump_fail" -> [file |-> PartialFile, tmp |-> t, status |-> "false"]
      [] o.step = "rename_fail" -> [file |-> ListFile(pins), tmp |-> t, status |-> "false"]
      [] o.step = "kill_dump" -> [file |-> PartialFile, tmp |-> t, status |-> "killed"]
      [] OTHER -> [file |-> ListFile(pins), tmp |-> t, status |-> "killed"]

\* _save_pins: write the temporary file, rename it over the data file
DM_save_pins(f, t, pins, o) ==
    CASE o.step = "ok" ->
            [file |-> ListFile(pins), tmp |-> NoFile, status |-> "true"]
      [] o.step = "open_fail" ->
            [file |-> f, tmp |-> CleanUp(t, o), status |-> "false"]
      [] o.step = "dump_fail" ->
            [file |-> f, tmp |-> CleanUp(PartialFile, o), status |-> "false"]
      [] o.step = "rename_fail" ->
            [file |-> f, tmp |-> CleanUp(ListFile(pins), o), status |-> "false"]
      [] o.step = "kill_dump" ->
            [file |-> f, tmp |-> PartialFile, status |-> "killed"]
      [] OTHER ->     \* kill_rename: killed between the dump and the rename
            [file |-> f, tmp |-> ListFile(pins), status |-> "killed"]

SaveRet(status) ==
    CASE status = "true" -> RetBool(TRUE)
      [] status = "false" -> RetBool(FALSE)
      [] OTHER -> RetNone

\* _ensure_file_exists
DM_ensure_file_exists(f, t, o) ==
    IF f.kind = "missing"
    THEN LET s == DM_save_pins(f, t, <<>>, o) IN [file |-> s.file, tmp |-> s.tmp]
    ELSE [file |-> f, tmp |-> t]

\* load_pins as a plausible bug would have it: no except clause
LoadPinsUnguarded(f) ==
    IF f.kind \in {"missing", "corrupt", "partial"} THEN RetRaise
    ELSE IF f.kind = "list" THEN RetList(f.pins) ELSE RetList(<<>>)

\* load_pins as a plausible bug would have it: the isinstance test never passes
LoadPinsRejectsList(f) == RetList(<<>>)

\* load_pins: open and json.load; any exception gives the empty list, and so
\* does a document that is not a list
DM_load_pins(f) ==
    IF f.kind \in {"missing", "corrupt", "partial"} THEN RetList(<<>>)
    ELSE IF f.kind = "list" THEN RetList(f.pins) ELSE RetList(<<>>)

NewPin(pins, a, now) ==
    [price |-> a.price, location |-> a.location, brand |-> a.brand, fact |-> a.fact,
     lat |-> a.lat, lon |-> a.lon, timestamp |-> FormatTimestamp(now),
     id |-> Len(pins) + 1, is_multi_pack |-> a.is_multi_pack]

\* add_pin as a plausible bug would have it: the loaded list is saved as it was
AddPinNoAppend(f, t, a, now, o) ==
    LET s == DM_save_pins(f, t, DM_load_pins(f).pins, o)
    IN  [file |-> s.file, tmp |-> s.tmp, ret |-> SaveRet(s.status)]

\* add_pin as a plausible bug would have it: the ids of the stored records are
\* renumbered by position before the new record is appended
AddPinRenumbers(f, t, a, now, o) ==
    LET l == DM_load_pins(f)
        old == [i \in 1 .. Len(l.pins) |-> [l.pins[i] EXCEPT !.id = i]]
        s == DM_save_pins(f, t, Append(old, NewPin(old, a, now)), o)
    IN  [file |-> s.file, tmp |-> s.tmp, ret |-> SaveRet(s.status)]

\* add_pin
DM_add_pin(f, t, a, now, o) ==
    LET l == DM_load_pins(f)
    IN  IF l.kind = "raise"
        THEN [file |-> f, tmp |-> t, ret |-> RetBool(FALSE)]
        ELSE LET s == DM_save_pins(f, t, Append(l.pins, NewPin(l.pins, a, now)), o)
             IN  [file |-> s.file, tmp |-> s.tmp, ret |-> SaveRet(s.status)]

\* list.pop(i) for 0 <= i < len
Pop(pins, i) == SubSeq(pins, 1, i) \o SubSeq(pins, i + 2, Len(pins))

\* delete_pin as a plausible bug would have it: 1 <= pin_index <= len, the
\* record before the position
DeletePinOffByOne(f, t, pin_index, o) ==
    LET l == DM_load_pins(f)
    IN  IF 1 <= pin_index /\ pin_index <= Len(l.pins)
        THEN LET s == DM_save_pins(f, t, Pop(l.pins, pin_index - 1), o)
             IN  [file |-> s.file, tmp |-> s.tmp, ret |-> SaveRet(s.status)]
        ELSE [file |-> f, tmp |-> t, ret |-> RetBool(FALSE)]

\* delete_pin as a plausible bug would have it: no bounds check, list.pop's own
\* negative indexing, and the list saved whatever the index
DeletePinUnchecked(f, t, pin_index, o) ==
    LET l == DM_load_pins(f)
        n == Len(l.pins)
        i == IF pin_index < 0 THEN pin_index + n ELSE pin_index
    IN  IF 0 <= i /\ i < n
        THEN LET s == DM_save_pins(f, t, Pop(l.pins, i), o)
             IN  [file |-> s.file, tmp |-> s.tmp, ret |-> SaveRet(s.status)]
        ELSE [file |-> f, tmp |-> t, ret |-> RetBool(FALSE)]

\* delete_pin
DM_delete_pin(f, t, pin_index, o) ==
    LET l == DM_load_pins(f)
    IN  IF l.kind = "raise"
        THEN [file |-> f, tmp |-> t, ret |-> RetBool(FALSE)]
        ELSE IF 0 <= pin_index /\ pin_index < Len(l.pins)
             THEN LET s == DM_save_pins(f, t, Pop(l.pins, pin_index), o)
                  IN  [file |-> s.file, tmp |-> s.tmp, ret |-> SaveRet(s.status)]
             ELSE [file |-> f, tmp |-> t, ret |-> RetBool(FALSE)]

\* clear_all_pins as a plausible bug would have it: the loaded list is saved back
ClearAllSavesLoaded(f, t, o) ==
    LET s == DM_save_pins(f, t, DM_load_pins(f).pins, o)
    IN  [file |-> s.file, tmp |-> s.tmp, ret |-> SaveRet(s.status)]

\* clear_all_pins
DM_clear_all_pins(f, t, o) ==
    LET s == DM_save_pins(f, t, <<>>, o)
    IN  [file |-> s.file, tmp |-> s.tmp, ret |-> SaveRet(s.status)]

\* get_pin_count: no try of its own
DM_get_pin_count(f) ==
    LET l == DM_load_pins(f)
    IN  IF l.kind = "raise" THEN RetRaise ELSE RetInt(Len(l.pins))

BackupOutcomes == {"ok", "open_fail", "dump_fail"}

\* backup_data: a new file map_pins_backup_<timestamp>.json, written in place;
\* nothing is cleaned up on failure
DM_backup_data(f, bo) ==
    LET l == DM_load_pins(f)
    IN  IF l.kind = "raise" \/ bo = "open_fail"
        THEN [backup |-> NoFile, ret |-> RetStr("")]
        ELSE IF bo = "dump_fail"
             THEN [backup |-> PartialFile, ret |-> RetStr("")]
             ELSE [backup |-> ListFile(l.pins), ret |-> RetStr("backup_file")]

\* get_data_info: no try of its own; the keys that depend on the stored data
DM_get_data_info(f) ==
    LET c == DM_get_pin_count(f)
    IN  IF c.kind = "raise" THEN RetRaise
        ELSE RetInfo([storage_type |-> "", file_exists |-> f.kind # "missing",
                      pin_count |-> c.n, connection_status |-> "", error |-> FALSE])

----------------------------------------------------------------------------
(* Relational backend: the statements DatabaseManager issues on chocolate_pins *)

\* INSERT INTO chocolate_pins (price, location, brand, fact, lat, lon, is_multi_pack):
\* id from the SERIAL sequence, the DECIMAL columns rounded to their scale,
\* timestamp and created_at defaulting to CURRENT_TIMESTAMP
InsertRow(tbl, nid, a, now) ==
    tbl \cup { [id |-> nid, price |-> RoundTo(a.price, PriceQuantum),
                location |-> a.location, brand |-> a.brand, fact |-> a.fact,
                lat |-> RoundTo(a.lat, CoordQuantum), lon |-> RoundTo(a.lon, CoordQuantum),
                is_multi_pack |-> a.is_multi_pack, timestamp |-> now, created_at |-> now] }

\* ORDER BY created_at as a plausible bug would have it: ascending
OrderByCreatedAtAsc(rows) ==
    LET RECURSIVE asc(_)
        asc(S) ==
            IF S = {} THEN <<>>
            ELSE LET r == CHOOSE x \in S : \A y \in S : x.created_at <= y.created_at
                 IN  <<r>> \o asc(S \ {r})
    IN  asc(rows)

\* ORDER BY created_at DESC
OrderByCreatedAtDesc(rows) ==
    LET RECURSIVE desc(_)
        desc(S) ==
            IF S = {} THEN <<>>
            ELSE LET r == CHOOSE x \in S : \A y \in S : y.created_at <= x.created_at
                 IN  <<r>> \o desc(S \ {r})
    IN  desc(rows)

\* one row of the SELECT of load_pins as the dictionary load_pins returns:
\* created_at is not selected, timestamp is formatted by TO_CHAR
RowToPin(r) ==
    [price |-> r.price, location |-> r.location, brand |-> r.brand, fact |-> r.fact,
     lat |-> r.lat, lon |-> r.lon, timestamp |-> FormatTimestamp(r.timestamp),
     id |-> r.id, is_multi_pack |-> r.is_multi_pack]

SelectPins(tbl) ==
    LET rows == OrderByCreatedAtDesc(tbl)
    IN  [i \in 1 .. Len(rows) |-> RowToPin(rows[i])]

\* DELETE FROM chocolate_pins WHERE id = %s
DeleteRow(tbl, pin_id) ==
    [table |-> { r \in tbl : r.id # pin_id },
     rowcount |-> Cardinality({ r \in tbl : r.id = pin_id })]

----------------------------------------------------------------------------
(* Facade: DatabaseManager.  s is the store the call finds, [use_database,   *)
(* file, tmp, table, next_id]; dbok tells whether the statement of the call  *)
(* goes through or psycopg2 raises.                                          *)

Unchanged(s, ret) ==
    [file |-> s.file, tmp |-> s.tmp, table |-> s.table, next_id |-> s.next_id, ret |-> ret]

OnFile(s, r) ==
    [file |-> r.file, tmp |-> r.tmp, table |-> s.table, next_id |-> s.next_id, ret |-> r.ret]

\* load_pins
DBM_load_pins(s, dbok) ==
    IF ~s.use_database THEN DM_load_pins(s.file)
    ELSE IF dbok THEN RetList(SelectPins(s.table)) ELSE RetList(<<>>)

\* add_pin
DBM_add_pin(s, a, now, o, dbok) ==
    IF ~s.use_database THEN OnFile(s, DM_add_pin(s.file, s.tmp, a, now, o))
    ELSE IF dbok
         THEN [file |-> s.file, tmp |-> s.tmp,
               table |-> InsertRow(s.table, s.next_id, a, now),
               next_id |-> s.next_id + 1, ret |-> RetBool(TRUE)]
         ELSE Unchanged(s, RetBool(FALSE))

\* delete_pin as a plausible bug would have it: success whenever the statement ran
DeletePinAnyRowcount(s, pin_id, o, dbok) ==
    IF ~s.use_database THEN OnFile(s, DM_delete_pin(s.file, s.tmp, pin_id, o))
    ELSE IF dbok
         THEN LET d == DeleteRow(s.table, pin_id)
              IN  [file |-> s.file, tmp |-> s.tmp, table |-> d.table,
                   next_id |-> s.next_id, ret |-> RetBool(d.rowcount >= 0)]
         ELSE Unchanged(s, RetBool(FALSE))

\* delete_pin as a plausible bug would have it: the fallback takes the argument
\* for a record id and turns it into a position
DeletePinIdAsPosition(s, pin_id, o, dbok) ==
    IF ~s.use_database THEN OnFile(s, DM_delete_pin(s.file, s.tmp, pin_id - 1, o))
    ELSE IF dbok
         THEN LET d == DeleteRow(s.table, pin_id)
              IN  [file |-> s.file, tmp |-> s.tmp, table |-> d.table,
                   next_id |-> s.next_id, ret |-> RetBool(d.rowcount > 0)]
         ELSE Unchanged(s, RetBool(FALSE))

\* delete_pin
DBM_delete_pin(s, pin_id, o, dbok) ==
    IF ~s.use_database THEN OnFile(s, DM_delete_pin(s.file, s.tmp, pin_id, o))
    ELSE IF dbok
         THEN LET d == DeleteRow(s.table, pin_id)
              IN  [file |-> s.file, tmp |-> s.tmp, table |-> d.table,
                   next_id |-> s.next_id, ret |-> RetBool(d.rowcount > 0)]
         ELSE Unchanged(s, RetBool(FALSE))

\* clear_all_pins
DBM_clear_all_pins(s, o, dbok) ==
    IF ~s.use_database THEN OnFile(s, DM_clear_all_pins(s.file, s.tmp, o))
    ELSE IF dbok
         THEN [file |-> s.file, tmp |-> s.tmp, table |-> {},
               next_id |-> s.next_id, ret |-> RetBool(TRUE)]
         ELSE Unchanged(s, RetBool(FALSE))

\* get_pin_count
DBM_get_pin_count(s, dbok) ==
    IF ~s.use_database THEN DM_get_pin_count(s.file)
    ELSE IF dbok THEN RetInt(Cardinality(s.table)) ELSE RetInt(0)

\* get_data_info
DBM_get_data_info(s, dbok) ==
    IF ~s.use_database
    THEN LET info == DM_get_data_info(s.file)
         IN  IF info.kind = "raise" THEN RetRaise
             ELSE RetInfo([info.info EXCEPT !.storage_type = "JSON (fallback)"])
    ELSE IF dbok
         THEN RetInfo([storage_type |-> "PostgreSQL Database", file_exists |-> FALSE,
                       pin_count |-> Cardinality(s.table),
                       connection_status |-> "Connected", error |-> FALSE])
         ELSE RetInfo([storage_type |-> "PostgreSQL Database (Error)",
                       file_exists |-> FALSE, pin_count |-> 0,
                       connection_status |-> "Error", error |-> TRUE])

\* the loop of migrate_from_json: add_pin once per record, one statement each,
\* the result of add_pin not looked at; fails holds the positions whose INSERT raises
RECURSIVE MigrateLoop(_, _, _, _, _)
MigrateLoop(s, pins, k, now, fails) ==
    IF k > Len(pins) THEN s
    ELSE LET r == DBM_add_pin(s, [price |-> pins[k].price, location |-> pins[k].location,
                                  brand |-> pins[k].brand, fact |-> pins[k].fact,
                                  lat |-> pins[k].lat, lon |-> pins[k].lon,
                                  is_multi_pack |-> pins[k].is_multi_pack],
                              now + (k - 1), OkOutcome, k \notin fails)
         IN  MigrateLoop([s EXCEPT !.table = r.table, !.next_id = r.next_id],
                         pins, k + 1, now, fails)

\* migrate_from_json; src is the content of the file at json_file_path
DBM_migrate_from_json(s, src, now, fails) ==
    IF ~s.use_database THEN Unchanged(s, RetBool(FALSE))
    ELSE IF src.kind # "list" THEN Unchanged(s, RetBool(FALSE))
         ELSE Unchanged(MigrateLoop(s, src.pins, 1, now, fails), RetBool(TRUE))

\* _init_database: no URL, or a failed connect or CREATE TABLE, gives False
DBM_init_database(url, connects) == url # "" /\ connects

----------------------------------------------------------------------------
(* The state machine: one action per public operation of the facade, called  *)
(* by the single-threaded presentation layer, and the start of the process.  *)

\* a writer between calls
IdleWriter == [pc |-> "idle", op |-> "", pins |-> <<>>, rec |-> <<>>, ret |-> RetNone]

\* no writer has started; nothing was acknowledged yet
NoWriters ==
    [st |-> [w \in {1, 2} |-> IdleWriter], acked |-> {}, deleted |-> {}, raced |-> FALSE]

\* no page was served yet: st.session_state is empty
NoSession ==
    [open |-> FALSE, pins |-> <<>>, show_form |-> FALSE, selected_location |-> <<>>,
     event |-> "", pressed |-> <<>>]

Store ==
    [use_database |-> use_database, file |-> file, tmp |-> tmp, table |-> table,
     next_id |-> next_id]

\* the record of a call: the operation, its arguments, the time of the call,
\* what the environment decided, the backup file it wrote, what it returned
Call(op, a, idx, o, dbok, src, fails, out, ret) ==
    [op |-> op, a |-> a, idx |-> idx, t |-> clock, o |-> o, dbok |-> dbok,
     src |-> src, fails |-> fails, out |-> out, ret |-> ret]

\* what the environment decides during a call: how the write of the file
\* backend ends, or whether the statement of the relational backend goes through
Env ==
    IF use_database
    THEN { [o |-> OkOutcome, dbok |-> b] : b \in BOOLEAN }
    ELSE { [o |-> o, dbok |-> TRUE] : o \in SaveOutcomes }

\* a call that writes nothing has no write that could fail
EnvRead ==
    IF use_database
    THEN { [o |-> OkOutcome, dbok |-> b] : b \in BOOLEAN }
    ELSE { [o |-> OkOutcome, dbok |-> TRUE] }

\* DatabaseManager(): _init_database and, on the fallback, DataManager() with
\* its _ensure_file_exists
Construct(url, connects, f, t, o) ==
    LET ud == DBM_init_database(url, connects)
        e == DM_ensure_file_exists(f, t, o)
    IN  [use_database |-> ud,
         file |-> IF ud THEN f ELSE e.file,
         tmp |-> IF ud THEN t ELSE e.tmp]

Init ==
    \E url \in {"", "postgres://db"}, connects \in BOOLEAN,
       disk \in {NoFile, CorruptFile, NotListFile}, o \in ReturningOutcomes :
        LET c == Construct(url, connects, disk, NoFile, o)
        IN  /\ database_url = url
            /\ use_database = c.use_database
            /\ running = TRUE
            /\ file = c.file
            /\ tmp = c.tmp
            /\ table = {}
            /\ next_id = 1
            /\ clock = 0
            /\ last = [op |-> "init", a |-> NoArgs, idx |-> 0, t |-> 0, o |-> o,
                       dbok |-> TRUE, src |-> NoFile, fails |-> {},
                       out |-> NoFile, ret |-> RetNone]
            /\ prev = [file |-> c.file, tmp |-> c.tmp, table |-> {}]
            /\ writers = NoWriters
            /\ session = NoSession

Snapshot == prev' = [file |-> file, tmp |-> tmp, table |-> table]

Apply(r) ==
    /\ file' = r.file
    /\ tmp' = r.tmp
    /\ table' = r.table
    /\ next_id' = r.next_id
    /\ running' = (r.ret.kind # "none")

LoadPins ==
    /\ running
    /\ \E e \in EnvRead :
        last' = Call("load_pins", NoArgs, 0, e.o, e.dbok, NoFile, {}, NoFile,
                     DBM_load_pins(Store, e.dbok))
    /\ Snapshot
    /\ UNCHANGED <<writers, session, database_url, use_database, running, file, tmp, table, next_id,
                   clock>>

AddPin ==
    /\ running
    /\ clock < MaxClock
    /\ \E a \in ArgTuples, e \in Env :
        LET r == DBM_add_pin(Store, a, clock, e.o, e.dbok)
        IN  /\ Apply(r)
            /\ last' = Call("add_pin", a, 0, e.o, e.dbok, NoFile, {}, NoFile, r.ret)
    /\ clock' = clock + 1
    /\ Snapshot
    /\ UNCHANGED <<writers, session, database_url, use_database>>

DeletePin ==
    /\ running
    /\ \E pin_id \in DeleteIds, e \in Env :
        LET r == DBM_delete_pin(Store, pin_id, e.o, e.dbok)
        IN  /\ Apply(r)
            /\ last' = Call("delete_pin", NoArgs, pin_id, e.o, e.dbok, NoFile, {}, NoFile, r.ret)
    /\ Snapshot
    /\ UNCHANGED <<writers, session, database_url, use_database, clock>>

ClearAllPins ==
    /\ running
    /\ \E e \in Env :
        LET r == DBM_clear_all_pins(Store, e.o, e.dbok)
        IN  /\ Apply(r)
            /\ last' = Call("clear_all_pins", NoArgs, 0, e.o, e.dbok, NoFile, {}, NoFile, r.ret)
    /\ Snapshot
    /\ UNCHANGED <<writers, session, database_url, use_database, clock>>

GetPinCount ==
    /\ running
    /\ \E e \in EnvRead :
        last' = Call("get_pin_count", NoArgs, 0, e.o, e.dbok, NoFile, {}, NoFile,
                     DBM_get_pin_count(Store, e.dbok))
    /\ Snapshot
    /\ UNCHANGED <<writers, session, database_url, use_database, running, file, tmp, table, next_id,
                   clock>>

GetDataInfo ==
    /\ running
    /\ \E e \in EnvRead :
        last' = Call("get_data_info", NoArgs, 0, e.o, e.dbok, NoFile, {}, NoFile,
                     DBM_get_data_info(Store, e.dbok))
    /\ Snapshot
    /\ UNCHANGED <<writers, session, database_url, use_database, running, file, tmp, table, next_id,
                   clock>>

\* json_manager.backup_data(): the presentation layer offers it on the fallback only
BackupData ==
    /\ running
    /\ ~use_database
    /\ \E bo \in BackupOutcomes :
        LET r == DM_backup_data(file, bo)
        IN  last' = Call("backup_data", NoArgs, 0, OkOutcome, TRUE, NoFile, {}, r.backup, r.ret)
    /\ Snapshot
    /\ UNCHANGED <<writers, session, database_url, use_database, running, file, tmp, table, next_id,
                   clock>>

\* migrate_from_json(path): path names the data file of the file backend, a
\* file that is not there, or one that does not hold a JSON array
MigrateFromJson ==
    /\ running
    /\ \E src \in {file, NoFile, CorruptFile, NotListFile} :
        /\ clock + Len(src.pins) <= MaxClock
        /\ \E fails \in SUBSET (1 .. Len(src.pins)) :
            LET r == DBM_migrate_from_json(Store, src, clock, fails)
            IN  /\ Apply(r)
                /\ last' = Call("migrate_from_json", NoArgs, 0, OkOutcome, fails = {},
                                src, fails, NoFile, r.ret)
                /\ clock' = IF use_database THEN clock + Len(src.pins) ELSE clock
    /\ Snapshot
    /\ UNCHANGED <<writers, session, database_url, use_database>>

\* the process, killed inside a write, is started again; the sessions it
\* served are gone with it
Restart ==
    /\ ~running
    /\ \E connects \in BOOLEAN, o \in ReturningOutcomes :
        LET c == Construct(database_url, connects, file, tmp, o)
        IN  /\ use_database' = c.use_database
            /\ file' = c.file
            /\ tmp' = c.tmp
            /\ last' = [op |-> "init", a |-> NoArgs, idx |-> 0, t |-> clock, o |-> o,
                        dbok |-> TRUE, src |-> NoFile, fails |-> {},
                        out |-> NoFile, ret |-> RetNone]
    /\ running' = TRUE
    /\ session' = NoSession
    /\ Snapshot
    /\ UNCHANGED <<writers, database_url, table, next_id, clock>>

Next ==
    \/ LoadPins
    \/ AddPin
    \/ DeletePin
    \/ ClearAllPins
    \/ GetPinCount
    \/ GetDataInfo
    \/ BackupData
    \/ MigrateFromJson
    \/ Restart

Spec == Init /\ [][Next]_vars

----------------------------------------------------------------------------
(* Properties *)

\* the store the last call found
PrevStore == [Store EXCEPT !.file = prev.file, !.tmp = prev.tmp, !.table = prev.table]

\* what the next load_pins() and get_pin_count() give when nothing fails, and
\* what get_pin_count() gave before the last call
Loaded == DBM_load_pins(Store, TRUE).pins
Count == DBM_get_pin_count(Store, TRUE).n
CountBefore == DBM_get_pin_count(PrevStore, TRUE).n

Returned(op, b) == last.op = op /\ last.ret = RetBool(b)

\* C1 as stated: after add_pin returned True, load_pins() holds a record with
\* exactly the submitted price, location, brand, fact, lat, lon and
\* is_multi_pack and a timestamp not earlier than the time of the call, and
\* get_pin_count() is one more than before.
C1_AddThenLoadExact ==
    Returned("add_pin", TRUE) =>
        /\ \E i \in 1 .. Len(Loaded) :
            /\ Loaded[i].price = last.a.price
            /\ Loaded[i].location = last.a.location
            /\ Loaded[i].brand = last.a.brand
            /\ Loaded[i].fact = last.a.fact
            /\ Loaded[i].lat = last.a.lat
            /\ Loaded[i].lon = last.a.lon
            /\ Loaded[i].is_multi_pack = last.a.is_multi_pack
            /\ ParseTimestamp(Loaded[i].timestamp) >= last.t
        /\ Count = CountBefore + 1

\* x is v as a column of quantum q keeps it: the nearest multiple of q
Nearest(x, v, q) == x % q = 0 /\ 2 * Abs(x - v) <= q

\* C1 as amended: after add_pin returned True, load_pins() holds a record with
\* the submitted location, brand, fact and is_multi_pack, with the submitted
\* price, lat and lon (file backend) or their nearest values at the scale of
\* the DECIMAL columns (relational backend), and with a timestamp less than a
\* second before the time of the call (the call time cut to whole seconds, or
\* later); get_pin_count() is one more than before.
C1_AddThenLoad ==
    Returned("add_pin", TRUE) =>
        /\ \E i \in 1 .. Len(Loaded) :
            /\ IF use_database
               THEN /\ Nearest(Loaded[i].price, last.a.price, PriceQuantum)
                    /\ Nearest(Loaded[i].lat, last.a.lat, CoordQuantum)
                    /\ Nearest(Loaded[i].lon, last.a.lon, CoordQuantum)
               ELSE /\ Loaded[i].price = last.a.price
                    /\ Loaded[i].lat = last.a.lat
                    /\ Loaded[i].lon = last.a.lon
            /\ Loaded[i].location = last.a.location
            /\ Loaded[i].brand = last.a.brand
            /\ Loaded[i].fact = last.a.fact
            /\ Loaded[i].is_multi_pack = last.a.is_multi_pack
            /\ ParseTimestamp(Loaded[i].timestamp) + TicksPerSec > last.t
            /\ ParseTimestamp(Loaded[i].timestamp) <= last.t
        /\ Count = CountBefore + 1

\* C1 witness: an add on the relational backend, in the middle of a second, of
\* a price with a third decimal, to a table that already holds a row
C1_Witness ==
    /\ Returned("add_pin", TRUE)
    /\ use_database
    /\ last.t % TicksPerSec # 0
    /\ last.a.price % PriceQuantum # 0
    /\ CountBefore >= 1

\* C2: file backend: a delete_pin(i) that returns True leaves the stored
\* sequence with exactly the element at position i removed, the others
\* unchanged and in their order.
C2_DeleteRemovesPosition ==
    (Returned("delete_pin", TRUE) /\ ~use_database) =>
        /\ prev.file.kind = "list"
        /\ file.kind = "list"
        /\ 0 <= last.idx /\ last.idx < Len(prev.file.pins)
        /\ Len(file.pins) = Len(prev.file.pins) - 1
        /\ \A j \in 1 .. Len(file.pins) :
            file.pins[j] = prev.file.pins[IF j <= last.idx THEN j ELSE j + 1]

\* C2 witness: the middle one of three records deleted
C2_Witness ==
    /\ Returned("delete_pin", TRUE)
    /\ ~use_database
    /\ Len(prev.file.pins) = 3
    /\ last.idx = 1

\* C3: file backend: delete_pin(i) with i < 0 or i >= len returns False, does
\* not raise, and leaves the file (so load_pins and get_pin_count) unchanged.
C3_DeleteOutOfRange ==
    (/\ last.op = "delete_pin"
     /\ ~use_database
     /\ (last.idx < 0 \/ last.idx >= Len(DM_load_pins(prev.file).pins))) =>
        /\ last.ret = RetBool(FALSE)
        /\ file = prev.file
        /\ DM_load_pins(file) = DM_load_pins(prev.file)
        /\ DM_get_pin_count(file) = DM_get_pin_count(prev.file)

\* C3 witness: a negative index on a store that holds records
C3_Witness ==
    /\ last.op = "delete_pin"
    /\ ~use_database
    /\ last.idx < 0
    /\ Len(prev.file.pins) >= 2

FileWriter == last.op \in {"add_pin", "delete_pin", "clear_all_pins"} /\ ~use_database

\* C4: file backend: a write that fails or is cut off before the rename leaves
\* the data file as it was, so load_pins() returns the sequence stored before,
\* never a partial one; a write that fails reports False.
C4_AtomicWrite ==
    /\ file.kind # "partial"
    /\ (FileWriter /\ last.o.step # "ok") =>
        /\ file = prev.file
        /\ DM_load_pins(file) = DM_load_pins(prev.file)
    /\ (FileWriter /\ last.o.step \in {"open_fail", "dump_fail", "rename_fail"}) =>
        last.ret = RetBool(FALSE)
    /\ (FileWriter /\ last.o.step \in {"kill_dump", "kill_rename"}) =>
        last.ret \in {RetNone, RetBool(FALSE)}

\* C4 witness: the process killed while it was writing the temporary file,
\* with records in the data file
C4_Witness ==
    /\ last.op = "add_pin"
    /\ ~use_database
    /\ last.o.step = "kill_dump"
    /\ last.ret = RetNone
    /\ tmp.kind = "partial"
    /\ Len(prev.file.pins) >= 1

\* C5: no two stored records of the active backend have the same id.
C5_UniqueIds ==
    \A i, j \in 1 .. Len(Loaded) : i # j => Loaded[i].id # Loaded[j].id

\* the same call made directly on the DataManager, on the files the call found
Direct ==
    CASE last.op = "load_pins" ->
            [file |-> prev.file, tmp |-> prev.tmp, ret |-> DM_load_pins(prev.file)]
      [] last.op = "add_pin" -> DM_add_pin(prev.file, prev.tmp, last.a, last.t, last.o)
      [] last.op = "delete_pin" -> DM_delete_pin(prev.file, prev.tmp, last.idx, last.o)
      [] last.op = "clear_all_pins" -> DM_clear_all_pins(prev.file, prev.tmp, last.o)
      [] last.op = "get_pin_count" ->
            [file |-> prev.file, tmp |-> prev.tmp, ret |-> DM_get_pin_count(prev.file)]
      [] OTHER ->
            [file |-> prev.file, tmp |-> prev.tmp, ret |-> DM_get_data_info(prev.file)]

FacadeOps ==
    {"load_pins", "add_pin", "delete_pin", "clear_all_pins", "get_pin_count",
     "get_data_info"}

\* C6 as stated: with no DATABASE_URL, every facade operation returns what the
\* same call on the file backend returns and leaves the same stored state.
C6_FallbackSame ==
    (database_url = "" /\ last.op \in FacadeOps) =>
        /\ ~use_database
        /\ last.ret = Direct.ret
        /\ file = Direct.file
        /\ tmp = Direct.tmp
        /\ table = prev.table

\* C6 as amended: with no DATABASE_URL, load_pins, add_pin, delete_pin,
\* clear_all_pins and get_pin_count return what the same call on the file
\* backend returns, get_data_info returns the file backend's bundle with the
\* key storage_type added, set to "JSON (fallback)", and every one of them
\* leaves the stored state the file backend's call leaves.
C6_FallbackSameButTag ==
    (database_url = "" /\ last.op \in FacadeOps) =>
        /\ ~use_database
        /\ IF last.op = "get_data_info"
           THEN /\ last.ret.kind = "info"
                /\ Direct.ret.kind = "info"
                /\ Direct.ret.info.storage_type = ""
                /\ last.ret.info.storage_type = "JSON (fallback)"
                /\ last.ret.info.file_exists = Direct.ret.info.file_exists
                /\ last.ret.info.pin_count = Direct.ret.info.pin_count
                /\ last.ret.info.connection_status = Direct.ret.info.connection_status
                /\ last.ret.info.error = Direct.ret.info.error
           ELSE last.ret = Direct.ret
        /\ file = Direct.file
        /\ tmp = Direct.tmp
        /\ table = prev.table

\* C6 witness: get_data_info on the fallback with records stored
C6_Witness ==
    /\ database_url = ""
    /\ last.op = "get_data_info"
    /\ last.ret.info.pin_count >= 2

\* an exception arises inside the last call: the file cannot be read or
\* parsed, the write fails, the statement fails
Fault ==
    CASE last.op \in {"load_pins", "get_pin_count", "get_data_info"} ->
            IF use_database THEN ~last.dbok
            ELSE prev.file.kind \in {"missing", "corrupt", "partial"}
      [] last.op \in {"add_pin", "clear_all_pins"} ->
            IF use_database THEN ~last.dbok
            ELSE last.o.step \in {"open_fail", "dump_fail", "rename_fail"}
      [] last.op = "delete_pin" ->
            IF use_database THEN ~last.dbok
            ELSE /\ last.o.step \in {"open_fail", "dump_fail", "rename_fail"}
                 /\ 0 <= last.idx /\ last.idx < Len(DM_load_pins(prev.file).pins)
      [] last.op = "backup_data" -> last.out.kind # "list"
      [] last.op = "migrate_from_json" -> use_database /\ last.src.kind # "list"
      [] OTHER -> FALSE

\* False, the empty collection, zero or the empty string
Degraded ==
    \/ last.ret = RetBool(FALSE)
    \/ last.ret = RetList(<<>>)
    \/ last.ret = RetInt(0)
    \/ last.ret = RetStr("")

C8_ClearEmpties ==
    (Returned("clear_all_pins", TRUE) /\ ~use_database) =>
        /\ DM_get_pin_count(file) = RetInt(0)
        /\ DM_load_pins(file) = RetList(<<>>)

\* C8 witness: a store with records cleared
C8_Witness ==
    /\ Returned("clear_all_pins", TRUE)
    /\ ~use_database
    /\ Len(prev.file.pins) >= 2

\* the creation time of the row with the given id
CreatedAt(pin_id) == (CHOOSE r \in table : r.id = pin_id).created_at

\* C9: relational backend: after an add_pin that returned True, load_pins()
\* returns the new record first and the others after it in descending order
\* of creation.
C9_NewestFirst ==
    (Returned("add_pin", TRUE) /\ use_database) =>
        /\ Len(Loaded) = Cardinality(prev.table) + 1
        /\ Loaded[1].id \notin { r.id : r \in prev.table }
        /\ Loaded[1].location = last.a.location
        /\ Loaded[1].brand = last.a.brand
        /\ Loaded[1].fact = last.a.fact
        /\ Loaded[1].is_multi_pack = last.a.is_multi_pack
        /\ { Loaded[i].id : i \in 2 .. Len(Loaded) } = { r.id : r \in prev.table }
        /\ \A i, j \in 1 .. Len(Loaded) :
            i < j => CreatedAt(Loaded[i].id) > CreatedAt(Loaded[j].id)

\* C9 witness: a row added to a table of two
C9_Witness ==
    /\ Returned("add_pin", TRUE)
    /\ use_database
    /\ Cardinality(prev.table) = 2

\* C10: relational backend: delete_pin(id) with an id that is no primary key
\* of a stored row returns False and leaves the row count as it was;
\* delete_pin returns True only when at least one row was removed.
C10_DeleteMissingId ==
    (last.op = "delete_pin" /\ use_database) =>
        /\ (last.idx \notin { r.id : r \in prev.table }) =>
            /\ last.ret = RetBool(FALSE)
            /\ Count = CountBefore
            /\ table = prev.table
        /\ (last.ret = RetBool(TRUE)) => Cardinality(table) < Cardinality(prev.table)

\* C10 witness: the statement ran, with an id no row has, on a table with rows
C10_Witness ==
    /\ last.op = "delete_pin"
    /\ use_database
    /\ last.dbok
    /\ prev.table # {}
    /\ last.idx \notin { r.id : r \in prev.table }

\* a is b with some elements taken out, the others in their order
RECURSIVE IsSubSeq(_, _)
IsSubSeq(a, b) ==
    IF a = <<>> THEN TRUE
    ELSE IF b = <<>> THEN FALSE
    ELSE IF Head(a) = Head(b) THEN IsSubSeq(Tail(a), Tail(b))
    ELSE IsSubSeq(a, Tail(b))

StoredBefore == DM_load_pins(prev.file).pins
StoredNow == DM_load_pins(file).pins

\* C11: records are never updated in place: after any call every stored record
\* is a record that was stored before the call, with the same values of all its
\* fields, id and timestamp included, or the one record an add_pin appended
\* (one row per record for migrate_from_json); a call only appends or removes.
C11_NeverUpdatedInPlace ==
    /\ \/ IsSubSeq(StoredNow, StoredBefore)
       \/ /\ last.op = "add_pin"
          /\ StoredNow # <<>>
          /\ IsSubSeq(SubSeq(StoredNow, 1, Len(StoredNow) - 1), StoredBefore)
          /\ StoredNow[Len(StoredNow)].timestamp = FormatTimestamp(last.t)
    /\ \A r \in table :
        \/ r \in prev.table
        \/ /\ last.op \in {"add_pin", "migrate_from_json"}
           /\ r.id \notin { q.id : q \in prev.table }
           /\ r.created_at >= last.t
    /\ last.op \notin {"add_pin", "migrate_from_json"} => table \subseteq prev.table

\* C11 witness: a record appended to a file whose first record had been deleted
C11_Witness ==
    /\ Returned("add_pin", TRUE)
    /\ ~use_database
    /\ Len(StoredBefore) >= 1
    /\ StoredBefore[1].id # 1

\* C12: migrate_from_json returns True only if the migration was successful: on
\* the relational backend a True means every record of the file was inserted
\* (the row count grew by the number of records of the file); off the
\* relational backend it returns False and stores nothing.
C12_MigrateTrueMeansInserted ==
    last.op = "migrate_from_json" =>
        IF use_database
        THEN last.ret = RetBool(TRUE) =>
                Cardinality(table) = Cardinality(prev.table) + Len(last.src.pins)
        ELSE /\ last.ret = RetBool(FALSE)
             /\ table = prev.table
             /\ file = prev.file

----------------------------------------------------------------------------
(* Two writers on the file backend.  add_pin and delete_pin are a load, the   *)
(* dump of the new list into map_pins.json.tmp and the rename of that file    *)
(* over map_pins.json; nothing keeps a second writer (a second session or a   *)
(* second process on the same data directory) from running in between.        *)

Writers == {1, 2}

Range(seq) == { seq[i] : i \in 1 .. Len(seq) }

OtherBusy(w) == \E v \in Writers \ {w} : writers.st[v].pc # "idle"

\* add_pin up to pins.append(new_pin): the list the writer is about to save
W_LoadAdd(w) ==
    /\ running /\ ~use_database
    /\ writers.st[w].pc = "idle"
    /\ clock < MaxClock
    /\ \E a \in ArgTuples :
        LET pins == DM_load_pins(file).pins
            new == NewPin(pins, a, clock)
        IN  writers' = [writers EXCEPT
                !.st[w] = [pc |-> "dump", op |-> "add_pin", pins |-> Append(pins, new),
                           rec |-> <<new>>, ret |-> RetNone],
                !.raced = writers.raced \/ OtherBusy(w)]
    /\ clock' = clock + 1
    /\ UNCHANGED <<database_url, use_database, running, file, tmp, table, next_id,
                   last, prev, session>>

\* delete_pin up to pins.pop(pin_index), or its return of False
W_LoadDelete(w) ==
    /\ running /\ ~use_database
    /\ writers.st[w].pc = "idle"
    /\ clock < MaxClock
    /\ clock' = clock + 1
    /\ \E pin_index \in DeleteIds :
        LET pins == DM_load_pins(file).pins
        IN  IF 0 <= pin_index /\ pin_index < Len(pins)
            THEN writers' = [writers EXCEPT
                    !.st[w] = [pc |-> "dump", op |-> "delete_pin",
                               pins |-> Pop(pins, pin_index),
                               rec |-> <<pins[pin_index + 1]>>, ret |-> RetNone],
                    !.raced = writers.raced \/ OtherBusy(w)]
            ELSE writers' = [writers EXCEPT
                    !.st[w] = [pc |-> "idle", op |-> "delete_pin", pins |-> <<>>,
                               rec |-> <<>>, ret |-> RetBool(FALSE)]]
    /\ UNCHANGED <<database_url, use_database, running, file, tmp, table, next_id,
                   last, prev, session>>

\* _save_pins, first half: open(temp_file, 'w') and json.dump
W_Dump(w) ==
    /\ writers.st[w].pc = "dump"
    /\ tmp' = ListFile(writers.st[w].pins)
    /\ writers' = [writers EXCEPT !.st[w].pc = "rename"]
    /\ UNCHANGED <<database_url, use_database, running, file, table, next_id, clock,
                   last, prev, session>>

\* _save_pins, second half: os.rename(temp_file, self.pins_file) moves whatever
\* the temporary file holds by now; if the other writer has renamed it away,
\* the rename raises and _save_pins returns False
W_Rename(w) ==
    /\ writers.st[w].pc = "rename"
    /\ IF tmp.kind = "missing"
       THEN /\ writers' = [writers EXCEPT
                    !.st[w].pc = "idle", !.st[w].ret = RetBool(FALSE)]
            /\ UNCHANGED <<file, tmp>>
       ELSE /\ file' = tmp
            /\ tmp' = NoFile
            /\ writers' = [writers EXCEPT
                    !.st[w].pc = "idle", !.st[w].ret = RetBool(TRUE),
                    !.acked = IF writers.st[w].op = "add_pin"
                              THEN writers.acked \cup Range(writers.st[w].rec)
                              ELSE writers.acked,
                    !.deleted = IF writers.st[w].op = "delete_pin"
                                THEN writers.deleted \cup Range(writers.st[w].rec)
                                ELSE writers.deleted]
    /\ UNCHANGED <<database_url, use_database, running, table, next_id, clock,
                   last, prev, session>>

NextRace ==
    \E w \in Writers :
        \/ W_LoadAdd(w)
        \/ W_LoadDelete(w)
        \/ W_Dump(w)
        \/ W_Rename(w)

SpecRace == Init /\ [][NextRace]_vars

\* C13: a lost update needs the race.  As long as no writer has started a call
\* while the other was between its load and the end of its write, every record
\* whose add_pin returned True is in the file or was removed by a delete_pin
\* that returned True.  With the race (the witness) both calls return True and
\* the file lacks the effect of one of them, so "every call that returned True
\* is reflected in the file" is no invariant of two writers.
C13_NoLossWithoutRace ==
    ~writers.raced =>
        \A r \in writers.acked : r \in Range(StoredNow) \/ r \in writers.deleted

\* C13 witness: the second writer loaded between the first writer's load and
\* its write, both add_pin calls returned True, and one of the two records is
\* not in the file
C13_Witness ==
    /\ writers.raced
    /\ \A w \in Writers :
        /\ writers.st[w].pc = "idle"
        /\ writers.st[w].op = "add_pin"
        /\ writers.st[w].ret = RetBool(TRUE)
    /\ writers.deleted = {}
    /\ \E r \in writers.acked : r \notin Range(StoredNow)

----------------------------------------------------------------------------
(* Presentation layer: main.py.  Every interaction reruns main() with one     *)
(* widget event; st.session_state lives across the reruns.                    *)

\* the positional parameters of DatabaseManager.add_pin after self
AddPinParams == <<"price", "location", "brand", "fact", "lat", "lon", "is_multi_pack">>

\* a call database_manager.add_pin(*args): Python binds the positional
\* arguments to the parameters and raises TypeError when one is left without
\* a value, before any statement of add_pin runs
CallAddPin(s, args, now, o, dbok) ==
    IF Len(args) # Len(AddPinParams) THEN Unchanged(s, RetRaise)
    ELSE DBM_add_pin(s, [price |-> args[1], location |-> args[2], brand |-> args[3],
                         fact |-> args[4], lat |-> args[5], lon |-> args[6],
                         is_multi_pack |-> args[7]], now, o, dbok)

\* save_pin
save_pin(s, price, location, brand, fact, lat, lon, now, o, dbok) ==
    CallAddPin(s, <<price, location, brand, fact, lat, lon>>, now, o, dbok)

\* pin.get('id', i)
PinGetId(pin, i) == IF "id" \in DOMAIN pin THEN pin.id ELSE i

\* sorted(pins, key=lambda x: x[order], reverse=reverse_dict[order]): a stable
\* sort, ascending by price or descending by timestamp; records with equal
\* keys keep the order of the list in both directions
SortRank(pins, order, i) ==
    Cardinality({ j \in 1 .. Len(pins) :
        \/ IF order = "price" THEN pins[j].price < pins[i].price
                              ELSE pins[j].timestamp > pins[i].timestamp
        \/ /\ IF order = "price" THEN pins[j].price = pins[i].price
                                 ELSE pins[j].timestamp = pins[i].timestamp
           /\ j < i }) + 1

Sorted(pins, order) ==
    [k \in 1 .. Len(pins) |->
        pins[CHOOSE i \in 1 .. Len(pins) : SortRank(pins, order, i) = k]]

\* what the form can hold when a button of it is pressed
FormInputs == ArgTuples \cup {NoArgs}

\* the point of the map the model clicks: (lat, lon)
ClickPoints == { <<20, -10>> }

\* first run of a session: st.session_state gets pins, show_form, selected_location
UI_Open ==
    /\ running /\ ~session.open
    /\ \E e \in EnvRead :
        /\ session' = [NoSession EXCEPT !.open = TRUE, !.event = "open",
                         !.pins = DBM_load_pins(Store, e.dbok).pins]
        /\ last' = Call("load_pins", NoArgs, 0, e.o, e.dbok, NoFile, {}, NoFile,
                        DBM_load_pins(Store, e.dbok))
    /\ Snapshot
    /\ UNCHANGED <<writers, database_url, use_database, running, file, tmp, table,
                   next_id, clock>>

\* a click on the map, not on a marker
UI_MapClick ==
    /\ running /\ session.open
    /\ \E p \in ClickPoints :
        session' = [session EXCEPT !.selected_location = p, !.show_form = TRUE,
                                   !.event = "map_click", !.pressed = <<>>]
    /\ UNCHANGED <<writers, database_url, use_database, running, file, tmp, table,
                   next_id, clock, last, prev>>

\* "Add Pin" of the form
UI_Submit ==
    /\ running /\ session.open
    /\ session.show_form /\ session.selected_location # <<>>
    /\ clock < MaxClock
    /\ \E f \in FormInputs, e \in Env, e2 \in EnvRead :
        LET lat == session.selected_location[1]
            lon == session.selected_location[2]
        IN  IF f.location # "" /\ f.price > 0
            THEN LET r == save_pin(Store, f.price, f.location, f.brand, f.fact, lat, lon,
                                   clock, e.o, e.dbok)
                     after == [Store EXCEPT !.file = r.file, !.tmp = r.tmp,
                                            !.table = r.table, !.next_id = r.next_id]
                 IN  /\ Apply(r)
                     /\ last' = Call("save_pin", [f EXCEPT !.lat = lat, !.lon = lon], 0,
                                     e.o, e.dbok, NoFile, {}, NoFile, r.ret)
                     /\ session' =
                            IF r.ret = RetBool(TRUE)
                            THEN [session EXCEPT !.pins = DBM_load_pins(after, e2.dbok).pins,
                                                 !.show_form = FALSE,
                                                 !.selected_location = <<>>,
                                                 !.event = "submit", !.pressed = <<>>]
                            ELSE [session EXCEPT !.event = "submit", !.pressed = <<>>]
                     /\ clock' = IF r.ret.kind = "raise" THEN clock ELSE clock + 1
                     /\ Snapshot
            ELSE /\ session' = [session EXCEPT !.event = "submit_invalid", !.pressed = <<>>]
                 /\ UNCHANGED <<running, file, tmp, table, next_id, clock, last, prev>>
    /\ UNCHANGED <<writers, database_url, use_database>>

\* "Cancel" of the form
UI_Cancel ==
    /\ running /\ session.open
    /\ session.show_form /\ session.selected_location # <<>>
    /\ session' = [session EXCEPT !.show_form = FALSE, !.selected_location = <<>>,
                                  !.event = "cancel", !.pressed = <<>>]
    /\ UNCHANGED <<writers, database_url, use_database, running, file, tmp, table,
                   next_id, clock, last, prev>>

\* "Delete Pin i+1" in the sidebar list
UI_Delete ==
    /\ running /\ session.open
    /\ session.pins # <<>>
    /\ \E order \in {"price", "timestamp"}, i \in 0 .. Len(session.pins) - 1,
          e \in Env, e2 \in EnvRead :
        LET pin == Sorted(session.pins, order)[i + 1]
            pin_id == PinGetId(pin, i)
            r == DBM_delete_pin(Store, pin_id, e.o, e.dbok)
            after == [Store EXCEPT !.file = r.file, !.tmp = r.tmp,
                                   !.table = r.table, !.next_id = r.next_id]
        IN  /\ Apply(r)
            /\ last' = Call("delete_pin", NoArgs, pin_id, e.o, e.dbok, NoFile, {}, NoFile,
                            r.ret)
            /\ session' = [session EXCEPT
                    !.pins = IF r.ret = RetBool(TRUE)
                             THEN DBM_load_pins(after, e2.dbok).pins ELSE @,
                    !.event = "delete", !.pressed = <<pin>>]
    /\ Snapshot
    /\ UNCHANGED <<writers, database_url, use_database, clock>>

\* "Clear All Pins"
UI_ClearAll ==
    /\ running /\ session.open
    /\ \E e \in Env :
        LET r == DBM_clear_all_pins(Store, e.o, e.dbok)
        IN  /\ Apply(r)
            /\ last' = Call("clear_all_pins", NoArgs, 0, e.o, e.dbok, NoFile, {}, NoFile,
                            r.ret)
            /\ session' = [session EXCEPT
                    !.pins = IF r.ret = RetBool(TRUE) THEN <<>> ELSE @,
                    !.event = "clear_all", !.pressed = <<>>]
    /\ Snapshot
    /\ UNCHANGED <<writers, database_url, use_database, clock>>

\* the page in front of a store that other clients of the facade fill as well
NextUI ==
    \/ UI_Open
    \/ UI_MapClick
    \/ UI_Submit
    \/ UI_Cancel
    \/ UI_Delete
    \/ UI_ClearAll
    \/ AddPin
    \/ Restart

SpecUI == Init /\ [][NextUI]_vars

\* the records the facade held when the last handler started
LoadedBefore == DBM_load_pins(PrevStore, TRUE).pins

\* C14: after the delete button of a displayed pin was pressed and delete_pin
\* returned True, the identifier that was passed is the pin's id on the
\* relational backend and the pin's position in the stored file on the
\* fallback, and the store is what it was without the pressed pin.
C14_DeleteRemovesPressed ==
    (session.event = "delete" /\ Returned("delete_pin", TRUE)) =>
        \E k \in 0 .. Len(LoadedBefore) - 1 :
            /\ LoadedBefore[k + 1] = session.pressed[1]
            /\ Loaded = Pop(LoadedBefore, k)
            /\ last.idx = IF use_database THEN session.pressed[1].id ELSE k

\* C15: a submission with a location and a price above zero ends with
\* save_pin returning a boolean, never with an exception; when it returned
\* True the submitted pin is stored, st.session_state.pins is load_pins(), and
\* the form is closed.
C15_SubmitSaves ==
    (session.event = "submit" /\ last.op = "save_pin") =>
        /\ last.ret.kind = "bool"
        /\ last.ret = RetBool(TRUE) =>
            /\ \E i \in 1 .. Len(Loaded) :
                /\ Loaded[i].location = last.a.location
                /\ Loaded[i].lat = last.a.lat
                /\ Loaded[i].lon = last.a.lon
            /\ session.pins = Loaded
            /\ ~session.show_form
            /\ session.selected_location = <<>>

====
